---- MODULE Spec2Model ----
(***************************************************************************)
(* Model of app.py: a menu loop (main) over two lazily cached aggregations *)
(* (get_hierarchy, get_statistics) of a semicolon-delimited file read by   *)
(* the generator read_csv, with the statistics printed (print_statistics)  *)
(* or written back as a delimited file (save_statistics).                  *)
(*                                                                         *)
(* Text is modelled as sequences of one-character strings, so that writing *)
(* a line (join) and reading it back (csv.reader) are different functions. *)
(***************************************************************************)
EXTENDS Integers, Sequences, FiniteSets, TLC

VARIABLES
    inExists,    \* Corp_Summary.csv exists and is readable
    inFile,      \* its content, a sequence of characters
    outExists,   \* Corp_Summary_Statistics.csv exists
    outWritable, \* it can be opened for writing
    outFile,     \* its content
    hierarchy,   \* main(): the hierarchy cache slot
    statistics,  \* main(): the statistics cache slot
    task,        \* main(): the trimmed input of the current iteration
    pc,          \* position of the program
    gen,         \* state of the read_csv generator object
    reader,      \* records the csv.reader has not produced yet
    row,         \* loop variable of the consuming for statement
    acc,         \* local dict of the running aggregator
    inHandle,    \* a handle on the input file is open
    outHandle,   \* a handle on the output file is open
    saveIdx,     \* save_statistics: index of the next entry to write
    exc,         \* the exception that was raised, "none" if none
    stdout,      \* the report printed in the current iteration
    yielded,     \* rows yielded so far by the current read_csv generator
    hCalls,      \* number of calls of get_hierarchy
    sCalls       \* number of calls of get_statistics

vars == <<inExists, inFile, outExists, outWritable, outFile, hierarchy,
          statistics, task, pc, gen, reader, row, acc, inHandle, outHandle,
          saveIdx, exc, stdout, yielded, hCalls, sCalls>>

\* ------------------------------------------------------------------ bounds
\* physical lines of the input file (header included)
MaxLines == 3
\* calls of one aggregator in one run that the model follows
MaxCalls == 2

\* ------------------------------------------------------------- text tools
NL == "\n"
Delimeter == ";"
QuoteChar == "\""

RECURSIVE Join(_, _)
\* sep.join(parts)
Join(parts, sep) ==
    IF parts = <<>> THEN <<>>
    ELSE IF Len(parts) = 1 THEN parts[1]
    ELSE parts[1] \o <<sep>> \o Join(Tail(parts), sep)

Whitespace == {" ", NL}

RECURSIVE LStrip(_)
LStrip(s) ==
    IF s # <<>> /\ Head(s) \in Whitespace THEN LStrip(Tail(s)) ELSE s

RECURSIVE RStrip(_)
RStrip(s) ==
    IF s # <<>> /\ s[Len(s)] \in Whitespace
    THEN RStrip(SubSeq(s, 1, Len(s) - 1)) ELSE s

\* str.strip()
Strip(s) == RStrip(LStrip(s))

Digits == {"0", "1", "2", "3", "4", "5", "6", "7", "8", "9"}

DigitVal(c) ==
    CASE c = "0" -> 0 [] c = "1" -> 1 [] c = "2" -> 2 [] c = "3" -> 3
      [] c = "4" -> 4 [] c = "5" -> 5 [] c = "6" -> 6 [] c = "7" -> 7
      [] c = "8" -> 8 [] c = "9" -> 9

DigitChar(d) ==
    CASE d = 0 -> "0" [] d = 1 -> "1" [] d = 2 -> "2" [] d = 3 -> "3"
      [] d = 4 -> "4" [] d = 5 -> "5" [] d = 6 -> "6" [] d = 7 -> "7"
      [] d = 8 -> "8" [] d = 9 -> "9"

RECURSIVE DigitsVal(_, _)
DigitsVal(s, n) ==
    IF s = <<>> THEN n ELSE DigitsVal(Tail(s), 10 * n + DigitVal(Head(s)))

AllDigits(s) == s # <<>> /\ \A i \in 1..Len(s) : s[i] \in Digits

\* int(s) accepts surrounding whitespace and one sign before the digits
IntBody(s) ==
    IF s # <<>> /\ Head(s) \in {"-", "+"} THEN Tail(s) ELSE s

IsInt(s) == AllDigits(IntBody(Strip(s)))

\* int(s), for a text that IsInt
ParseInt(s) ==
    LET t == Strip(s)
        v == DigitsVal(IntBody(t), 0)
    IN  IF Head(t) = "-" THEN 0 - v ELSE v

RECURSIVE NatToStr(_)
NatToStr(n) ==
    IF n < 10 THEN <<DigitChar(n)>>
    ELSE NatToStr(n \div 10) \o <<DigitChar(n % 10)>>

\* str(n) of an integer
IntToStr(n) == IF n < 0 THEN <<"-">> \o NatToStr(0 - n) ELSE NatToStr(n)

\* ------------------------------------------------------------ csv.reader
\* The records csv.reader(file, delimiter=';') produces for a file content:
\* the default dialect (quotechar '"', doublequote, not strict), one state
\* per parser state of the csv module. The file is opened in text mode, so
\* every line end reaches the parser as "\n".
RECURSIVE CsvScan(_, _, _, _, _, _)
CsvScan(s, i, st, fld, rec, out) ==
    IF i > Len(s)
    THEN IF st = "START_RECORD" THEN out ELSE Append(out, Append(rec, fld))
    ELSE LET c == s[i] IN
      CASE st = "START_RECORD" /\ c = NL ->
             CsvScan(s, i + 1, "START_RECORD", <<>>, <<>>, Append(out, <<>>))
        [] st = "START_RECORD" /\ c # NL ->
             CsvScan(s, i, "START_FIELD", <<>>, <<>>, out)
        [] st \in {"START_FIELD", "IN_FIELD", "QUOTE_IN_QUOTED_FIELD"}
             /\ c = NL ->
             CsvScan(s, i + 1, "START_RECORD", <<>>, <<>>,
                     Append(out, Append(rec, fld)))
        [] st \in {"START_FIELD", "IN_FIELD", "QUOTE_IN_QUOTED_FIELD"}
             /\ c = Delimeter ->
             CsvScan(s, i + 1, "START_FIELD", <<>>, Append(rec, fld), out)
        [] st = "START_FIELD" /\ c = QuoteChar ->
             CsvScan(s, i + 1, "IN_QUOTED_FIELD", fld, rec, out)
        [] st = "START_FIELD" /\ c \notin {NL, Delimeter, QuoteChar} ->
             CsvScan(s, i + 1, "IN_FIELD", Append(fld, c), rec, out)
        [] st = "IN_FIELD" /\ c \notin {NL, Delimeter} ->
             CsvScan(s, i + 1, "IN_FIELD", Append(fld, c), rec, out)
        [] st = "IN_QUOTED_FIELD" /\ c = QuoteChar ->
             CsvScan(s, i + 1, "QUOTE_IN_QUOTED_FIELD", fld, rec, out)
        [] st = "IN_QUOTED_FIELD" /\ c # QuoteChar ->
             CsvScan(s, i + 1, "IN_QUOTED_FIELD", Append(fld, c), rec, out)
        [] st = "QUOTE_IN_QUOTED_FIELD" /\ c = QuoteChar ->
             CsvScan(s, i + 1, "IN_QUOTED_FIELD", Append(fld, c), rec, out)
        [] st = "QUOTE_IN_QUOTED_FIELD" /\ c \notin {NL, Delimeter, QuoteChar} ->
             CsvScan(s, i + 1, "IN_FIELD", Append(fld, c), rec, out)

CsvRecords(content) == CsvScan(content, 1, "START_RECORD", <<>>, <<>>, <<>>)

\* ---------------------------------------------------------------- inputs
\* The lines a Corp_Summary.csv is made of (without the line end):
\* two rows of one department, a department whose quoted name holds the
\* delimiter, a row of two fields with a negative salary, a salary that is
\* no integer, and a blank line
LineTexts ==
    { <<"x", ";", "A", ";", "t", ";", "5">>,
      <<"x", ";", "A", ";", "u", ";", "1", "2">>,
      <<"x", ";", "\"", "A", ";", "B", "\"", ";", "t", ";", "7">>,
      <<"x", ";", "-", "3">>,
      <<"x", ";", "A", ";", "t", ";", "z">>,
      <<>> }

RECURSIVE FilesOf(_)
\* the contents with exactly n lines, each ended by a line end
FilesOf(n) ==
    IF n = 0 THEN {<<>>}
    ELSE {f \o l \o <<NL>> : f \in FilesOf(n - 1), l \in LineTexts}

InputFiles == UNION {FilesOf(n) : n \in 0..MaxLines}

\* what the user types at the prompt
RawInputs ==
    { <<"1">>, <<"2">>, <<"3">>, <<" ", "1">>, <<"3", " ">>,
      <<>>, <<" ">>, <<"x">>, <<"1", "2">> }

\* a report left by an earlier run
StaleOutput == <<"o", ";", "l", "d", NL>>

\* ------------------------------------------------------------------ dicts
\* A dict is the sequence of its entries in insertion order.
HasKey(d, k) == \E i \in 1..Len(d) : d[i].key = k

IndexOf(d, k) == CHOOSE i \in 1..Len(d) : d[i].key = k

DictGet(d, k) == d[IndexOf(d, k)].val

DictSet(d, k, v) ==
    IF HasKey(d, k) THEN [d EXCEPT ![IndexOf(d, k)].val = v]
    ELSE Append(d, [key |-> k, val |-> v])

Keys(d) == {d[i].key : i \in 1..Len(d)}

\* A cache slot of main(): None, or a dict.
None == [set |-> FALSE, map |-> <<>>]

Some(d) == [set |-> TRUE, map |-> d]

\* truth value of a cache slot: None and the empty dict are both false
Truthy(c) == c.set /\ c.map # <<>>

\* Salaries with the two float sentinels: <<0, n>> is the integer n.
PosInf == <<1, 0>>
NegInf == <<-1, 0>>
Fin(n) == <<0, n>>
IsFin(a) == a[1] = 0

ExtLeq(a, b) ==
    \/ a[1] < b[1]
    \/ a[1] = b[1] /\ a[2] <= b[2]

\* min(a, b) and max(a, b)
ExtMin(a, b) == IF ExtLeq(b, a) /\ a # b THEN b ELSE a

ExtMax(a, b) == IF ExtLeq(a, b) /\ a # b THEN b ELSE a

ExtToStr(a) ==
    IF IsFin(a) THEN IntToStr(a[2])
    ELSE IF a = PosInf THEN <<"i", "n", "f">> ELSE <<"-", "i", "n", "f">>

\* ------------------------------------------------------------- read_csv
\* read_csv without the with statement: the handle stays open at the end
ReadCsvResume_NoWith(g, rs, h, exists, content, return_header) ==
    LET recs == CsvRecords(content)
        left == IF g = "created"
                THEN (IF return_header THEN recs ELSE Tail(recs))
                ELSE rs
    IN  IF g = "created" /\ ~exists
        THEN [gen |-> "finished", reader |-> <<>>, handle |-> FALSE,
              out |-> "raise", exc |-> "FileNotFoundError", row |-> <<>>]
        ELSE IF g = "created" /\ recs = <<>>
        THEN [gen |-> "finished", reader |-> <<>>, handle |-> TRUE,
              out |-> "raise", exc |-> "RuntimeError", row |-> <<>>]
        ELSE IF left = <<>>
        THEN [gen |-> "finished", reader |-> <<>>, handle |-> TRUE,
              out |-> "stop", exc |-> "none", row |-> <<>>]
        ELSE [gen |-> "suspended", reader |-> Tail(left), handle |-> TRUE,
              out |-> "yield", exc |-> "none", row |-> Head(left)]

\* One resumption of the generator read_csv(path, return_header): from its
\* creation or from its last yield up to the next yield, its return or the
\* exception it raises. g is the generator's state, rs the records its
\* csv.reader has left, h whether its file handle is open.
ReadCsvResume(g, rs, h, exists, content, return_header) ==
    LET recs == CsvRecords(content)
        \* the records that remain to be yielded at this resumption
        left == IF g = "created"
                THEN (IF return_header THEN recs ELSE Tail(recs))
                ELSE rs
    IN  IF g = "created" /\ ~exists
        THEN [gen |-> "finished", reader |-> <<>>, handle |-> FALSE,
              out |-> "raise", exc |-> "FileNotFoundError", row |-> <<>>]
        ELSE IF g = "created" /\ recs = <<>>
        THEN [gen |-> "finished", reader |-> <<>>, handle |-> FALSE,
              out |-> "raise", exc |-> "RuntimeError", row |-> <<>>]
        ELSE IF left = <<>>
        THEN [gen |-> "finished", reader |-> <<>>, handle |-> FALSE,
              out |-> "stop", exc |-> "none", row |-> <<>>]
        ELSE [gen |-> "suspended", reader |-> Tail(left), handle |-> TRUE,
              out |-> "yield", exc |-> "none", row |-> Head(left)]

\* -------------------------------------------------------- get_hierarchy
\* hierarchy[department] = {team} in place of .add(team)
HierarchyUpdate_Overwrite(d, department, team) ==
    DictSet(d, department, {team})

\* lines 32-34: hierarchy[department].add(team)
HierarchyUpdate(d, department, team) ==
    LET d1 == IF HasKey(d, department) THEN d
              ELSE DictSet(d, department, {})
    IN  DictSet(d1, department, DictGet(d1, department) \cup {team})

\* lines 31-34: the loop body for one row
HierarchyRow(d, r) ==
    IF Len(r) < 3 THEN [exc |-> "IndexError", acc |-> d]
    ELSE [exc |-> "none", acc |-> HierarchyUpdate(d, r[2], r[3])]

\* ------------------------------------------------------- get_statistics
NewStats ==
    [count |-> 0, sum_salary |-> 0, min_salary |-> PosInf,
     max_salary |-> NegInf]

\* the current minimum read from the 'max_salary' key
StatisticsUpdate_MinFromMax(d, department, salary) ==
    LET d1 == IF HasKey(d, department) THEN d
              ELSE DictSet(d, department, NewStats)
        old == DictGet(d1, department)
    IN  DictSet(d1, department,
            [count |-> old.count + 1,
             sum_salary |-> old.sum_salary + salary,
             min_salary |-> ExtMin(old.max_salary, Fin(salary)),
             max_salary |-> ExtMax(old.max_salary, Fin(salary))])

\* the first row of a department only creates its entry
StatisticsUpdate_CreateOnly(d, department, salary) ==
    IF ~HasKey(d, department) THEN DictSet(d, department, NewStats)
    ELSE LET old == DictGet(d, department)
         IN  DictSet(d, department,
                 [count |-> old.count + 1,
                  sum_salary |-> old.sum_salary + salary,
                  min_salary |-> ExtMin(old.min_salary, Fin(salary)),
                  max_salary |-> ExtMax(old.max_salary, Fin(salary))])

\* lines 60-74
StatisticsUpdate(d, department, salary) ==
    LET d1 == IF HasKey(d, department) THEN d
              ELSE DictSet(d, department, NewStats)
        old == DictGet(d1, department)
    IN  DictSet(d1, department,
            [count |-> old.count + 1,
             sum_salary |-> old.sum_salary + salary,
             min_salary |-> ExtMin(old.min_salary, Fin(salary)),
             max_salary |-> ExtMax(old.max_salary, Fin(salary))])

\* a loop body that skips the rows it cannot use
StatisticsRow_Skip(d, r) ==
    IF Len(r) < 2 \/ ~IsInt(r[Len(r)]) THEN [exc |-> "none", acc |-> d]
    ELSE [exc |-> "none",
          acc |-> StatisticsUpdate(d, r[2], ParseInt(r[Len(r)]))]

\* lines 58-74: the loop body for one row
StatisticsRow(d, r) ==
    IF Len(r) < 2 THEN [exc |-> "IndexError", acc |-> d]
    ELSE IF ~IsInt(r[Len(r)]) THEN [exc |-> "ValueError", acc |-> d]
    ELSE [exc |-> "none",
          acc |-> StatisticsUpdate(d, r[2], ParseInt(r[Len(r)]))]

\* ------------------------------------------------------ save_statistics
\* the five column titles of lines 106-111, abbreviated
HeaderLine ==
    Join(<<<<"D">>, <<"N">>, <<"m">>, <<"M">>, <<"a">>>>, Delimeter)
        \o <<NL>>

\* n / d rounded to the nearest hundredth (ties to even), in hundredths
RoundHundredths(n, d) ==
    LET a == IF n < 0 THEN 0 - 100 * n ELSE 100 * n
        q == a \div d
        r == a % d
    IN  IF 2 * r > d \/ (2 * r = d /\ q % 2 = 1) THEN q + 1 ELSE q

\* str(round(sum_salary / count, 2))
AvgToStr(sum_salary, count) ==
    LET q == RoundHundredths(sum_salary, count)
        fr == q % 100
    IN  (IF sum_salary < 0 THEN <<"-">> ELSE <<>>)
        \o NatToStr(q \div 100) \o <<".">>
        \o (IF fr % 10 = 0 THEN <<DigitChar(fr \div 10)>>
            ELSE <<DigitChar(fr \div 10), DigitChar(fr % 10)>>)

\* lines 114-120: the line written for one entry (count is not zero)
StatLine(e) ==
    Join(<<e.key, IntToStr(e.val.count), ExtToStr(e.val.min_salary),
           ExtToStr(e.val.max_salary),
           AvgToStr(e.val.sum_salary, e.val.count)>>, Delimeter) \o <<NL>>

\* ------------------------------------------------------------------ main
\* a cache slot that is never consulted
NeedsLoad_Always(cache) == TRUE

\* lines 147, 152, 157: "if not hierarchy" / "if not statistics"
NeedsLoad(cache) == ~Truthy(cache)

\* the chain without its third branch
Branch_NoThree(t) ==
    IF t = <<"1">> THEN "1"
    ELSE IF t = <<"2">> THEN "2"
    ELSE "break"

\* lines 146-162: the branch of the if / elif chain a trimmed input takes
Branch(t) ==
    IF t = <<"1">> THEN "1"
    ELSE IF t = <<"2">> THEN "2"
    ELSE IF t = <<"3">> THEN "3"
    ELSE "break"

\* the states of the output file before the run
OutputStates ==
    { [exists |-> FALSE, writable |-> TRUE, content |-> <<>>],
      [exists |-> TRUE, writable |-> TRUE, content |-> StaleOutput],
      [exists |-> TRUE, writable |-> FALSE, content |-> StaleOutput] }

Init ==
    /\ \E f \in InputFiles : inFile = f
    /\ inExists \in (IF inFile = <<>> THEN BOOLEAN ELSE {TRUE})
    /\ \E o \in OutputStates :
         /\ outExists = o.exists
         /\ outWritable = o.writable
         /\ outFile = o.content
    /\ hierarchy = None
    /\ statistics = None
    /\ task = <<>>
    /\ pc = "await"
    /\ gen = "none"
    /\ reader = <<>>
    /\ row = <<>>
    /\ acc = <<>>
    /\ inHandle = FALSE
    /\ outHandle = FALSE
    /\ saveIdx = 0
    /\ exc = "none"
    /\ stdout = "none"
    /\ yielded = <<>>
    /\ hCalls = 0
    /\ sCalls = 0

files == <<inExists, inFile, outExists, outWritable, outFile>>
caches == <<hierarchy, statistics>>
generator == <<gen, reader, row, inHandle, yielded>>

\* the call of an aggregator: its locals and a fresh generator object
CallAggregator ==
    /\ acc' = <<>>
    /\ gen' = "created"
    /\ reader' = <<>>
    /\ row' = <<>>
    /\ yielded' = <<>>
    /\ UNCHANGED inHandle

\* lines 143-162: one prompt, its dispatch, and the call it leads to
MenuInput ==
    /\ pc = "await"
    /\ \E raw \in RawInputs :
         LET t == Strip(raw)
             b == Branch(t)
         IN  /\ task' = t
             /\ stdout' = "none"
             /\ CASE b = "1" /\ NeedsLoad(hierarchy) ->
                       /\ hCalls < MaxCalls
                       /\ hCalls' = hCalls + 1
                       /\ pc' = "gh_next"
                       /\ CallAggregator
                       /\ UNCHANGED sCalls
                  [] b = "1" /\ ~NeedsLoad(hierarchy) ->
                       /\ pc' = "print_hierarchy"
                       /\ UNCHANGED <<generator, acc, hCalls, sCalls>>
                  [] b \in {"2", "3"} /\ NeedsLoad(statistics) ->
                       /\ sCalls < MaxCalls
                       /\ sCalls' = sCalls + 1
                       /\ pc' = "gs_next"
                       /\ CallAggregator
                       /\ UNCHANGED hCalls
                  [] b = "2" /\ ~NeedsLoad(statistics) ->
                       /\ pc' = "print_statistics"
                       /\ UNCHANGED <<generator, acc, hCalls, sCalls>>
                  [] b = "3" /\ ~NeedsLoad(statistics) ->
                       /\ pc' = "save_open"
                       /\ UNCHANGED <<generator, acc, hCalls, sCalls>>
                  [] b = "break" ->
                       /\ pc' = "done"
                       /\ UNCHANGED <<generator, acc, hCalls, sCalls>>
    /\ UNCHANGED <<files, caches, outHandle, saveIdx, exc>>

\* lines 30 and 57: the for statement asks read_csv for its next row
ReadCsvNext ==
    /\ pc \in {"gh_next", "gs_next"}
    /\ LET r == ReadCsvResume(gen, reader, inHandle, inExists, inFile, FALSE)
           f == IF pc = "gh_next" THEN "gh" ELSE "gs"
       IN  /\ gen' = r.gen
           /\ reader' = r.reader
           /\ inHandle' = r.handle
           /\ row' = r.row
           /\ exc' = r.exc
           /\ yielded' = IF r.out = "yield" THEN Append(yielded, r.row)
                         ELSE yielded
           /\ pc' = IF r.out = "raise" THEN "raising"
                    ELSE IF r.out = "stop" THEN f \o "_return"
                    ELSE f \o "_body"
    /\ UNCHANGED <<files, caches, task, acc, outHandle, saveIdx, stdout,
                   hCalls, sCalls>>

\* lines 31-34
GetHierarchyBody ==
    /\ pc = "gh_body"
    /\ LET r == HierarchyRow(acc, row)
       IN  /\ acc' = r.acc
           /\ exc' = r.exc
           /\ pc' = IF r.exc = "none" THEN "gh_next" ELSE "raising"
    /\ UNCHANGED <<files, caches, task, generator, outHandle, saveIdx,
                   stdout, hCalls, sCalls>>

\* lines 36 and 148
GetHierarchyReturn ==
    /\ pc = "gh_return"
    /\ hierarchy' = Some(acc)
    /\ pc' = "print_hierarchy"
    /\ UNCHANGED <<files, statistics, task, generator, acc, outHandle,
                   saveIdx, exc, stdout, hCalls, sCalls>>

\* lines 39-48 and 149
PrintHierarchy ==
    /\ pc = "print_hierarchy"
    /\ stdout' = "hierarchy"
    /\ pc' = "await"
    /\ UNCHANGED <<files, caches, task, generator, acc, outHandle, saveIdx,
                   exc, hCalls, sCalls>>

\* lines 58-74
GetStatisticsBody ==
    /\ pc = "gs_body"
    /\ LET r == StatisticsRow(acc, row)
       IN  /\ acc' = r.acc
           /\ exc' = r.exc
           /\ pc' = IF r.exc = "none" THEN "gs_next" ELSE "raising"
    /\ UNCHANGED <<files, caches, task, generator, outHandle, saveIdx,
                   stdout, hCalls, sCalls>>

\* lines 76 and 153, 158
GetStatisticsReturn ==
    /\ pc = "gs_return"
    /\ statistics' = Some(acc)
    /\ pc' = IF Branch(task) = "2" THEN "print_statistics" ELSE "save_open"
    /\ UNCHANGED <<files, hierarchy, task, generator, acc, outHandle,
                   saveIdx, exc, stdout, hCalls, sCalls>>

\* an entry whose average cannot be computed (lines 88 and 117)
DividesByZero(d) == \E i \in 1..Len(d) : d[i].val.count = 0

\* lines 79-94 and 154
PrintStatistics ==
    /\ pc = "print_statistics"
    /\ stdout' = "statistics"
    /\ IF DividesByZero(statistics.map)
       THEN exc' = "ZeroDivisionError" /\ pc' = "raising"
       ELSE exc' = exc /\ pc' = "await"
    /\ UNCHANGED <<files, caches, task, generator, acc, outHandle, saveIdx,
                   hCalls, sCalls>>

\* line 104: open(path, 'w') creates or truncates the file
SaveOpen ==
    /\ pc = "save_open"
    /\ IF outWritable
       THEN /\ outExists' = TRUE
            /\ outFile' = <<>>
            /\ outHandle' = TRUE
            /\ pc' = "save_header"
            /\ exc' = exc
       ELSE /\ exc' = "PermissionError"
            /\ pc' = "raising"
            /\ UNCHANGED <<outExists, outFile, outHandle>>
    /\ UNCHANGED <<inExists, inFile, outWritable, caches, task, generator,
                   acc, saveIdx, stdout, hCalls, sCalls>>

\* lines 105-111 (save_header is left at its default)
SaveHeader ==
    /\ pc = "save_header"
    /\ outFile' = outFile \o HeaderLine
    /\ saveIdx' = 1
    /\ pc' = "save_rows"
    /\ UNCHANGED <<inExists, inFile, outExists, outWritable, caches, task,
                   generator, acc, outHandle, exc, stdout, hCalls, sCalls>>

\* lines 113-121: one entry, or the end of the with block
SaveRow ==
    /\ pc = "save_rows"
    /\ IF saveIdx > Len(statistics.map)
       THEN /\ outHandle' = FALSE
            /\ pc' = "await"
            /\ UNCHANGED <<outFile, saveIdx, exc>>
       ELSE IF statistics.map[saveIdx].val.count = 0
       THEN /\ exc' = "ZeroDivisionError"
            /\ outHandle' = FALSE
            /\ pc' = "raising"
            /\ UNCHANGED <<outFile, saveIdx>>
       ELSE /\ outFile' = outFile \o StatLine(statistics.map[saveIdx])
            /\ saveIdx' = saveIdx + 1
            /\ UNCHANGED <<outHandle, pc, exc>>
    /\ UNCHANGED <<inExists, inFile, outExists, outWritable, caches, task,
                   generator, acc, stdout, hCalls, sCalls>>

\* The exception leaves main(): the traceback is reported and the process
\* ends; a generator suspended at its yield is finalised on the way, which
\* leaves its with block.
Unwind ==
    /\ pc = "raising"
    /\ pc' = "crashed"
    /\ gen' = IF gen = "none" THEN "none" ELSE "finished"
    /\ inHandle' = FALSE
    /\ UNCHANGED <<files, caches, task, reader, row, acc, outHandle,
                   saveIdx, exc, stdout, yielded, hCalls, sCalls>>

Next ==
    \/ MenuInput
    \/ ReadCsvNext
    \/ GetHierarchyBody
    \/ GetHierarchyReturn
    \/ PrintHierarchy
    \/ GetStatisticsBody
    \/ GetStatisticsReturn
    \/ PrintStatistics
    \/ SaveOpen
    \/ SaveHeader
    \/ SaveRow
    \/ Unwind

Spec == Init /\ [][Next]_vars

\* ---------------------------------------------------------------- claims
\* the three inputs the menu offers
MenuChoices == {<<"1">>, <<"2">>, <<"3">>}

\* the data rows of the input file: its records after the header
DataRows ==
    LET recs == CsvRecords(inFile)
    IN  IF recs = <<>> THEN <<>> ELSE Tail(recs)

\* the last field of a row as an integer
Salary(r) == ParseInt(r[Len(r)])

HierarchyWellFormed(rows) == \A i \in 1..Len(rows) : Len(rows[i]) >= 3

StatisticsWellFormed(rows) ==
    \A i \in 1..Len(rows) : Len(rows[i]) >= 2 /\ IsInt(rows[i][Len(rows[i])])

\* the indices of the rows of a department
RowsOf(rows, k) == {i \in 1..Len(rows) : rows[i][2] = k}

RECURSIVE SumOf(_, _)
SumOf(rows, idx) ==
    IF idx = {} THEN 0
    ELSE LET i == CHOOSE j \in idx : TRUE
         IN  Salary(rows[i]) + SumOf(rows, idx \ {i})

RECURSIVE TotalTeams(_)
TotalTeams(d) ==
    IF d = <<>> THEN 0 ELSE Cardinality(Head(d).val) + TotalTeams(Tail(d))

\* the physical lines of a content, each without its line end
RECURSIVE LinesOf(_, _, _)
LinesOf(s, i, cur) ==
    IF i > Len(s) THEN (IF cur = <<>> THEN <<>> ELSE <<cur>>)
    ELSE IF s[i] = NL THEN <<cur>> \o LinesOf(s, i + 1, <<>>)
    ELSE LinesOf(s, i + 1, Append(cur, s[i]))

\* each physical line read as one row
LineRows(content) ==
    LET ls == LinesOf(content, 1, <<>>)
    IN  [i \in 1..Len(ls) |->
            IF ls[i] = <<>> THEN <<>> ELSE CsvRecords(ls[i])[1]]

\* list(read_csv(path, return_header)) of a readable file
RECURSIVE ListReadCsv(_, _, _, _, _)
ListReadCsv(g, rs, content, return_header, out) ==
    LET r == ReadCsvResume(g, rs, g = "suspended", TRUE, content,
                           return_header)
    IN  IF r.out = "yield"
        THEN ListReadCsv(r.gen, r.reader, content, return_header,
                         Append(out, r.row))
        ELSE [exc |-> r.exc, rows |-> out]

\* C1: each cache is populated at most once in a run: get_hierarchy is
\* called at most once and get_statistics is called at most once, whatever
\* the input file holds.
C1_PopulatedAtMostOnce == hCalls <= 1 /\ sCalls <= 1

\* C2: the mapping get_statistics returns has exactly the departments of
\* the data rows as keys, and for each of them the number of its rows, the
\* exact sum of their salaries and their true minimum and maximum; the
\* header contributes to none; a file of well-formed rows is aggregated
\* without an error.
C2_StatisticsExact ==
    LET rows == DataRows
        d == statistics.map
    IN  /\ statistics.set =>
             /\ Keys(d) = {rows[i][2] : i \in 1..Len(rows)}
             /\ \A e \in 1..Len(d) :
                  LET idx == RowsOf(rows, d[e].key)
                      v == d[e].val
                  IN  /\ \A f \in 1..Len(d) : d[f].key = d[e].key => f = e
                      /\ v.count = Cardinality(idx)
                      /\ v.sum_salary = SumOf(rows, idx)
                      /\ \E i \in idx : v.min_salary = Fin(Salary(rows[i]))
                      /\ \E i \in idx : v.max_salary = Fin(Salary(rows[i]))
                      /\ \A i \in idx :
                           /\ v.min_salary[2] <= Salary(rows[i])
                           /\ Salary(rows[i]) <= v.max_salary[2]
        /\ (pc \in {"raising", "crashed"} /\ task \in {<<"2">>, <<"3">>}
              /\ StatisticsWellFormed(rows))
             => exc \notin {"IndexError", "ValueError"}

C2_Witness ==
    /\ statistics.set
    /\ \E e \in 1..Len(statistics.map) :
         /\ statistics.map[e].val.count >= 2
         /\ statistics.map[e].val.min_salary # statistics.map[e].val.max_salary

\* C3: the mapping get_hierarchy returns has every department of a data
\* row as a key, the set under a department is exactly the set of the team
\* names of its rows, and the memberships summed over the departments are
\* at most the number of data rows.
C3_HierarchyExact ==
    LET rows == DataRows
        d == hierarchy.map
    IN  hierarchy.set =>
          /\ Keys(d) = {rows[i][2] : i \in 1..Len(rows)}
          /\ \A e \in 1..Len(d) :
               /\ \A f \in 1..Len(d) : d[f].key = d[e].key => f = e
               /\ d[e].val = {rows[i][3] : i \in RowsOf(rows, d[e].key)}
          /\ TotalTeams(d) <= Len(rows)

C3_Witness ==
    /\ hierarchy.set
    /\ \E e \in 1..Len(hierarchy.map) : Cardinality(hierarchy.map[e].val) = 2

\* C4: after save_statistics has written the statistics, read_csv of the
\* output file (header excluded) yields one row per department, in the
\* same order, whose fields 1, 2 and 3 parse to count, min_salary and
\* max_salary.
C4_RoundTrip ==
    (pc = "await" /\ task = <<"3">>) =>
        LET d == statistics.map
            r == ListReadCsv("created", <<>>, outFile, FALSE, <<>>)
        IN  /\ r.exc = "none"
            /\ Len(r.rows) = Len(d)
            /\ \A i \in 1..Len(d) :
                 /\ Len(r.rows[i]) >= 4
                 /\ IsInt(r.rows[i][2]) /\ IsInt(r.rows[i][3])
                 /\ IsInt(r.rows[i][4])
                 /\ ParseInt(r.rows[i][2]) = d[i].val.count
                 /\ Fin(ParseInt(r.rows[i][3])) = d[i].val.min_salary
                 /\ Fin(ParseInt(r.rows[i][4])) = d[i].val.max_salary

\* C5: for a readable file read_csv ends without an error, also for a file
\* of one line or of none, and yields the lines after the first in file
\* order (all the lines when return_header is set).
C5_ReadCsvTotal ==
    inExists =>
      /\ \A rh \in BOOLEAN :
           LET r == ListReadCsv("created", <<>>, inFile, rh, <<>>)
               ls == LineRows(inFile)
           IN  /\ r.exc = "none"
               /\ r.rows = IF rh \/ ls = <<>> THEN ls ELSE Tail(ls)
      /\ (gen = "finished" /\ exc \notin {"IndexError", "ValueError"}) =>
           /\ exc # "RuntimeError"
           /\ yielded = DataRows

\* C6 as stated: the program ends only at an input that is none of "1",
\* "2", "3"; each of these three performs its action and returns to
\* awaiting input.
C6_EndsOnlyAtOtherInput ==
    pc \in {"done", "crashed"} => task \notin MenuChoices

\* C6 as amended: an input that is none of "1", "2", "3" ends the loop at
\* once, with no aggregator called, nothing printed and no file touched;
\* "1", "2" and "3" never end the loop normally: they return to awaiting
\* input with their report printed or written, or end the program with the
\* error their action raised.
C6_Dispatch ==
    [][ /\ pc = "await" =>
             IF task' \in MenuChoices
             THEN pc' \notin {"done", "crashed", "await"}
             ELSE /\ pc' = "done"
                  /\ stdout' = "none"
                  /\ UNCHANGED <<files, caches, generator, outHandle,
                                 hCalls, sCalls>>
        /\ pc' = "done" => pc = "await" /\ task' \notin MenuChoices
        /\ pc' = "crashed" =>
             pc = "raising" /\ exc # "none" /\ task \in MenuChoices
        /\ pc' = "await" =>
             \/ task = <<"1">> /\ stdout' = "hierarchy" /\ hierarchy.set
             \/ task = <<"2">> /\ stdout' = "statistics" /\ statistics.set
             \/ /\ task = <<"3">> /\ statistics.set /\ outExists
                /\ ~outHandle' /\ saveIdx = Len(statistics.map) + 1
      ]_vars

C6_Witness == pc = "crashed" /\ task = <<"1">> /\ exc = "IndexError"

\* C7: no partial results: an aggregation over a file with a malformed
\* data row returns no mapping, however many well-formed rows precede the
\* malformed one; the error leaves main(), the cache slot of the action
\* stays empty and no report is printed.
C7_NoPartialResults ==
    /\ LET rows == DataRows
       IN  /\ (hierarchy.set \/ pc = "gh_return")
                => HierarchyWellFormed(rows)
           /\ (statistics.set \/ pc = "gs_return")
                => StatisticsWellFormed(rows)
    /\ (pc \in {"raising", "crashed"} /\ exc \in {"IndexError", "ValueError"})
         => /\ stdout = "none"
            /\ task = <<"1">> => hierarchy = None
            /\ task \in {<<"2">>, <<"3">>} => statistics = None
    /\ (pc = "crashed" /\ task = <<"1">>) => hierarchy = None
    /\ (pc = "crashed" /\ task = <<"2">>) => statistics = None

C7_Witness ==
    /\ pc = "crashed"
    /\ exc = "ValueError"
    /\ Len(yielded) = 2
    /\ acc # <<>>

C9_CountPositive ==
    LET ok(d) == \A e \in 1..Len(d) :
                   /\ d[e].val.count >= 1
                   /\ IsFin(d[e].val.min_salary)
                   /\ IsFin(d[e].val.max_salary)
                   /\ d[e].val.min_salary[2] <= d[e].val.max_salary[2]
    IN  /\ ok(statistics.map)
        /\ pc \in {"gs_next", "gs_body", "gs_return"} => ok(acc)
        /\ exc # "ZeroDivisionError"

C9_Witness ==
    /\ pc = "save_rows"
    /\ saveIdx = 3

\* C10: input "1" leaves the statistics cache and the output file alone,
\* input "2" the hierarchy cache and the output file, input "3" the
\* hierarchy cache; under "3" the output file is touched only once the
\* statistics are available; a cache slot that holds a non-empty mapping
\* is never reassigned and its aggregator never called again.
C10_Frame ==
    [][ /\ task' = <<"1">> =>
             UNCHANGED <<statistics, outExists, outFile, sCalls>>
        /\ task' = <<"2">> =>
             UNCHANGED <<hierarchy, outExists, outFile, hCalls>>
        /\ task' = <<"3">> =>
             /\ UNCHANGED <<hierarchy, hCalls>>
             /\ <<outExists, outFile>>' # <<outExists, outFile>> =>
                  statistics.set /\ UNCHANGED statistics
        /\ (hierarchy.set /\ hierarchy.map # <<>>) =>
             UNCHANGED <<hierarchy, hCalls>>
        /\ (statistics.set /\ statistics.map # <<>>) =>
             UNCHANGED <<statistics, sCalls>>
      ]_vars

C10_Witness ==
    /\ pc = "crashed"
    /\ task = <<"3">>
    /\ exc = "ValueError"
    /\ hierarchy.set
    /\ outFile = StaleOutput

====
